---- MODULE Spec2Model ----
(***************************************************************************)
(* Request handling in the porter API server (package porter_app) and the  *)
(* dashboard's app form submit.  Each handler is a sequential program: one *)
(* action per step, the downstream services (cluster control plane,        *)
(* repository, Kubernetes agent) answer nondeterministically.               *)
(***************************************************************************)
EXTENDS Integers, Sequences, FiniteSets, TLC

VARIABLES
    handler,    \* which ServeHTTP / callback is running ("none" when idle)
    pc,         \* position inside the running handler
    request,    \* the decoded request, URL parameters and scopes
    local,      \* the handler's local variables
    calls,      \* downstream calls made so far, in order, with their outcome
    terminal,   \* HandleAPIError / WriteResult calls made by the handler, in order
    effects,    \* what the running dashboard callback has done so far, in order
    ui          \* state of the dashboard that outlives a callback

vars == <<handler, pc, request, local, calls, terminal, effects, ui>>
dashboard == <<effects, ui>>

----------------------------------------------------------------------------
(* Bounds *)

MaxLen == 2          \* longest request string, in lexemes
MaxRevisions == 2    \* most revisions the control plane returns in one list
MaxApps == 2         \* most porter apps the repository returns for one name
MaxEvents == 2       \* most notification events read for one revision
MaxDepth == 2        \* deepest nesting of the form's dirtyFields object
MaxFields == 2       \* most leaf fields of the form's dirtyFields object

----------------------------------------------------------------------------
(* Program constants *)

StatusBadRequest == 400
StatusInternalServerError == 500

DeploymentTargetKey == "porter.run/deployment-target-id"
AppNameKey == "porter.run/app-name"
ServiceNameKey == "porter.run/service-name"

----------------------------------------------------------------------------
(* Values *)

SeqsUpTo(S, n) == UNION {[1..k -> S] : k \in 0..n}

\* Request strings are sequences of lexemes: a plain character, the comma and
\* the text of a label key.
Lexemes == {"a", ",", ServiceNameKey}
Strings == SeqsUpTo(Lexemes, MaxLen)
\* a string of plain characters only
PlainText(s) == \A k \in 1..Len(s) : s[k] = "a"

ProjectIDs == {1}
ClusterIDs == {2}
Namespaces == {"ns-a", "ns-b"}
PodLists == {<<>>, <<"pod-1">>}

Nil == "nil"

AppNames == {"web", "api"}
AppIDs == {0, 7}
RevisionIDs == {"rev-1", "rev-2"}
AppInstanceIDs == {"inst-1"}

NilUUID == "00000000-0000-0000-0000-000000000000"
SomeUUID == "9c3a2b1e-0000-4000-8000-000000000001"
\* deployment_target_id values of a request: empty, malformed, the nil UUID, a
\* UUID in canonical form and the same UUID in URN form
DeploymentTargetIDs == {"", "not-a-uuid", NilUUID, SomeUUID, "urn:uuid:" \o SomeUUID}

\* uuid.Parse: the UUID in canonical form, or an error and the zero UUID
uuid_Parse(s) ==
    CASE s = NilUUID -> [err |-> FALSE, value |-> NilUUID]
      [] s = SomeUUID -> [err |-> FALSE, value |-> SomeUUID]
      [] s = "urn:uuid:" \o SomeUUID -> [err |-> FALSE, value |-> SomeUUID]
      [] OTHER -> [err |-> TRUE, value |-> NilUUID]

\* models.PorterApp rows
PorterApps(name) == {[ID |-> i, Name |-> name] : i \in AppIDs}
\* PorterApp.ToPorterAppType
ToPorterAppType(app) == [id |-> app.ID, name |-> app.Name]

\* porterv1.AppRevision messages; encodable tells whether the message can be
\* encoded (it carries an app definition that marshals)
AppRevisions ==
    [Id : RevisionIDs, AppInstanceId : AppInstanceIDs, AppName : AppNames,
     encodable : BOOLEAN]

\* porter_app.EncodedRevisionFromProto
EncodedRevisionFromProto(revision) ==
    IF revision.encodable
    THEN [err |-> FALSE,
          value |-> [ID |-> revision.Id, AppInstanceID |-> revision.AppInstanceId,
                     B64AppProto |-> <<"b64", revision.AppName>>]]
    ELSE [err |-> TRUE, value |-> [ID |-> "", AppInstanceID |-> "", B64AppProto |-> <<>>]]

\* porter app events carrying a notification; conv is what the conversion to
\* a notification yields, Scope the scope of the converted notification
PorterAppEvents ==
    {[ID |-> "ev-1", conv |-> c, Scope |-> sc] :
        c \in {"err", "nil", "ok"}, sc \in {"", "APPLICATION"}}

\* notifications.NotificationFromPorterAppEvent
NotificationFromPorterAppEvent(event) ==
    [err |-> event.conv = "err", nil |-> event.conv = "nil",
     value |-> [ID |-> event.ID, Scope |-> event.Scope]]

----------------------------------------------------------------------------
(* Terminal calls of a handler *)

HandleAPIError(status) == [call |-> "HandleAPIError", status |-> status]
WriteResult(result) == [call |-> "WriteResult", result |-> result]

\* A downstream call: the operation, its arguments, whether it returned an
\* error, and the value it returned otherwise.
Call(op, args, err, value) == [op |-> op, args |-> args, err |-> err, value |-> value]

----------------------------------------------------------------------------
(* pod_status.go *)

\* fmt.Sprintf of the two selector formats
PodSelectors(serviceName, deploymentTargetID, appName) ==
    IF serviceName = <<>>
    THEN <<DeploymentTargetKey, "=">> \o deploymentTargetID
            \o <<",", AppNameKey, "=">> \o appName
    ELSE <<ServiceNameKey, "=">> \o serviceName
            \o <<",", DeploymentTargetKey, "=">> \o deploymentTargetID
            \o <<",", AppNameKey, "=">> \o appName

PodStatusRequests ==
    [decodeOk : BOOLEAN, appNameErr : BOOLEAN, appName : Strings,
     DeploymentTargetID : Strings, ServiceName : Strings,
     projectID : ProjectIDs, clusterID : ClusterIDs]

\* the checks before the first downstream call: the status of the error
\* they report, 0 when they pass
PodStatusValidate_NoTargetCheck(req) ==
    IF ~req.decodeOk \/ req.appNameErr THEN StatusBadRequest ELSE 0

PodStatusValidate(req) ==
    IF ~req.decodeOk THEN StatusBadRequest
    ELSE IF req.appNameErr THEN StatusBadRequest
    ELSE IF req.DeploymentTargetID = <<>> THEN StatusBadRequest
    ELSE 0

PodStatus_ServeHTTP ==
    /\ handler = "none"
    /\ \E req \in PodStatusRequests :
          \* a request that fails to decode leaves the zero request
          /\ ~req.decodeOk => (req.DeploymentTargetID = <<>> /\ req.ServiceName = <<>>)
          \* GetURLParamString fails exactly when the parameter is empty
          /\ req.appNameErr <=> req.appName = <<>>
          /\ request' = req
    /\ handler' = "PodStatus"
    /\ pc' = "validate"
    /\ local' = [namespace |-> Nil]
    /\ calls' = <<>>
    /\ terminal' = <<>>
    /\ UNCHANGED dashboard

PodStatus_Validate ==
    /\ handler = "PodStatus" /\ pc = "validate"
    /\ IF PodStatusValidate(request) # 0
       THEN /\ terminal' = Append(terminal, HandleAPIError(PodStatusValidate(request)))
            /\ pc' = "return"
       ELSE /\ pc' = "DeploymentTargetDetails"
            /\ UNCHANGED terminal
    /\ UNCHANGED <<handler, request, local, calls, effects, ui>>

PodStatus_DeploymentTargetDetails ==
    /\ handler = "PodStatus" /\ pc = "DeploymentTargetDetails"
    /\ \E err \in BOOLEAN, res \in Namespaces :
          /\ err => res = "ns-a"
          \* the control plane knows no deployment target whose id is not plain text
          /\ ~PlainText(request.DeploymentTargetID) => err
          /\ calls' = Append(calls, Call("DeploymentTargetDetails",
                         [ProjectID |-> request.projectID,
                          ClusterID |-> request.clusterID,
                          DeploymentTargetID |-> request.DeploymentTargetID], err, res))
          /\ IF err
             THEN /\ terminal' = Append(terminal, HandleAPIError(StatusInternalServerError))
                  /\ pc' = "return"
                  /\ UNCHANGED local
             ELSE /\ local' = [local EXCEPT !.namespace = res]
                  /\ pc' = "GetAgent"
                  /\ UNCHANGED terminal
    /\ UNCHANGED <<handler, request, effects, ui>>

PodStatus_GetAgent_Retry ==
    /\ handler = "PodStatus" /\ pc = "GetAgent"
    /\ \E err \in BOOLEAN :
          /\ calls' = Append(calls, Call("GetAgent", [ClusterID |-> request.clusterID],
                                        err, "agent"))
          /\ IF err /\ Len(calls) >= 2
             THEN /\ terminal' = Append(terminal, HandleAPIError(StatusInternalServerError))
                  /\ pc' = "return"
             ELSE IF err
             THEN UNCHANGED <<pc, terminal>>
             ELSE /\ pc' = "GetPodsByLabel"
                  /\ UNCHANGED terminal
    /\ UNCHANGED <<handler, request, local, effects, ui>>

PodStatus_GetAgent ==
    /\ handler = "PodStatus" /\ pc = "GetAgent"
    /\ \E err \in BOOLEAN :
          /\ calls' = Append(calls, Call("GetAgent", [ClusterID |-> request.clusterID],
                                        err, "agent"))
          /\ IF err
             THEN /\ terminal' = Append(terminal, HandleAPIError(StatusInternalServerError))
                  /\ pc' = "return"
             ELSE /\ pc' = "GetPodsByLabel"
                  /\ UNCHANGED terminal
    /\ UNCHANGED <<handler, request, local, effects, ui>>

PodStatus_GetPodsByLabel ==
    /\ handler = "PodStatus" /\ pc = "GetPodsByLabel"
    /\ LET selectors == PodSelectors(request.ServiceName, request.DeploymentTargetID,
                                     request.appName)
       IN \E err \in BOOLEAN, res \in PodLists :
          /\ err => res = <<>>
          /\ calls' = Append(calls, Call("GetPodsByLabel",
                         [selectors |-> selectors, namespace |-> local.namespace], err, res))
          /\ IF err
             THEN terminal' = Append(terminal, HandleAPIError(StatusInternalServerError))
             ELSE terminal' = Append(terminal, WriteResult(<<>> \o res))
          /\ pc' = "return"
    /\ UNCHANGED <<handler, request, local, effects, ui>>

----------------------------------------------------------------------------
(* current_app_revision.go *)

LatestAppRevisionRequests ==
    [decodeOk : BOOLEAN, appNameErr : BOOLEAN, appName : AppNames \cup {""},
     DeploymentTargetID : DeploymentTargetIDs,
     projectID : ProjectIDs, clusterID : ClusterIDs]

\* the loop over notificationEvents: events that do not convert, convert to
\* nil or carry no scope are skipped
RECURSIVE LatestNotifications(_)
LatestNotifications(events) ==
    IF events = <<>> THEN <<>>
    ELSE LET n == NotificationFromPorterAppEvent(Head(events))
         IN IF n.err \/ n.nil \/ n.value.Scope = ""
            THEN LatestNotifications(Tail(events))
            ELSE <<n.value>> \o LatestNotifications(Tail(events))

LatestAppRevisionValidate(req) ==
    IF req.appNameErr THEN StatusBadRequest
    ELSE IF ~req.decodeOk THEN StatusBadRequest
    ELSE IF uuid_Parse(req.DeploymentTargetID).err THEN StatusBadRequest
    ELSE 0

\* the checks on what ReadPorterAppsByProjectIDAndName returned: the status
\* of the error they report, 0 when they pass
PorterAppsCheck_TakeFirst(err, porterApps) ==
    IF err THEN StatusBadRequest
    ELSE IF Len(porterApps) = 0 THEN StatusBadRequest
    ELSE IF porterApps[1].ID = 0 THEN StatusInternalServerError
    ELSE 0

PorterAppsCheck(err, porterApps) ==
    IF err THEN StatusBadRequest
    ELSE IF Len(porterApps) = 0 THEN StatusBadRequest
    ELSE IF Len(porterApps) > 1 THEN StatusBadRequest
    ELSE IF porterApps[1].ID = 0 THEN StatusInternalServerError
    ELSE 0

\* porterv1.CurrentAppRevisionRequest
CurrentAppRevisionRequest_AppIdMixedUp(projectID, appId, deploymentTargetID) ==
    [ProjectId |-> projectID, AppId |-> projectID,
     DeploymentTargetId |-> deploymentTargetID]

CurrentAppRevisionRequest(projectID, appId, deploymentTargetID) ==
    [ProjectId |-> projectID, AppId |-> appId,
     DeploymentTargetId |-> deploymentTargetID]

LatestAppRevision_ServeHTTP ==
    /\ handler = "none"
    /\ \E req \in LatestAppRevisionRequests :
          /\ req.appNameErr <=> req.appName = ""
          /\ ~req.decodeOk => req.DeploymentTargetID = ""
          /\ request' = req
    /\ handler' = "LatestAppRevision"
    /\ pc' = "validate"
    /\ local' = [appId |-> 0]
    /\ calls' = <<>>
    /\ terminal' = <<>>
    /\ UNCHANGED dashboard

LatestAppRevision_Validate ==
    /\ handler = "LatestAppRevision" /\ pc = "validate"
    /\ IF LatestAppRevisionValidate(request) # 0
       THEN /\ terminal' = Append(terminal, HandleAPIError(LatestAppRevisionValidate(request)))
            /\ pc' = "return"
       ELSE /\ pc' = "ReadPorterAppsByProjectIDAndName"
            /\ UNCHANGED terminal
    /\ UNCHANGED <<handler, request, local, calls, effects, ui>>

LatestAppRevision_ReadPorterApps ==
    /\ handler = "LatestAppRevision" /\ pc = "ReadPorterAppsByProjectIDAndName"
    /\ \E err \in BOOLEAN, porterApps \in SeqsUpTo(PorterApps(request.appName), MaxApps) :
          /\ err => porterApps = <<>>
          /\ calls' = Append(calls, Call("ReadPorterAppsByProjectIDAndName",
                         [ProjectID |-> request.projectID, Name |-> request.appName],
                         err, porterApps))
          /\ IF PorterAppsCheck(err, porterApps) # 0
             THEN /\ terminal' = Append(terminal,
                                        HandleAPIError(PorterAppsCheck(err, porterApps)))
                  /\ pc' = "return"
                  /\ UNCHANGED local
             ELSE /\ local' = [local EXCEPT !.appId = porterApps[1].ID]
                  /\ pc' = "CurrentAppRevision"
                  /\ UNCHANGED terminal
    /\ UNCHANGED <<handler, request, effects, ui>>

\* the control plane answers with an error, a nil response or message, or a
\* message carrying a revision; the revision is then encoded
LatestAppRevision_CurrentAppRevision ==
    /\ handler = "LatestAppRevision" /\ pc = "CurrentAppRevision"
    /\ \E outcome \in {"err", "nil", "msg"}, appRevision \in AppRevisions :
          /\ outcome # "msg" => appRevision = CHOOSE r \in AppRevisions : TRUE
          /\ calls' = Append(calls, Call("CurrentAppRevision",
                         CurrentAppRevisionRequest(request.projectID, local.appId,
                                                   request.DeploymentTargetID),
                         outcome = "err", [nil |-> outcome # "msg", AppRevision |-> appRevision]))
          /\ IF outcome = "err"
             THEN /\ terminal' = Append(terminal, HandleAPIError(StatusBadRequest))
                  /\ pc' = "return"
                  /\ UNCHANGED local
             ELSE IF outcome = "nil"
             THEN /\ terminal' = Append(terminal, HandleAPIError(StatusInternalServerError))
                  /\ pc' = "return"
                  /\ UNCHANGED local
             ELSE LET encoded == EncodedRevisionFromProto(appRevision)
                  IN IF encoded.err
                     THEN /\ terminal' = Append(terminal, HandleAPIError(StatusInternalServerError))
                          /\ pc' = "return"
                          /\ UNCHANGED local
                     ELSE /\ local' = [appId |-> local.appId, encodedRevision |-> encoded.value]
                          /\ pc' = "ReadNotificationsByAppRevisionID"
                          /\ UNCHANGED terminal
    /\ UNCHANGED <<handler, request, effects, ui>>

LatestAppRevision_ReadNotifications ==
    /\ handler = "LatestAppRevision" /\ pc = "ReadNotificationsByAppRevisionID"
    /\ \E err \in BOOLEAN, notificationEvents \in SeqsUpTo(PorterAppEvents, MaxEvents) :
          /\ err => notificationEvents = <<>>
          /\ calls' = Append(calls, Call("ReadNotificationsByAppRevisionID",
                         [AppInstanceID |-> local.encodedRevision.AppInstanceID,
                          AppRevisionID |-> local.encodedRevision.ID],
                         err, notificationEvents))
          /\ IF err
             THEN terminal' = Append(terminal, HandleAPIError(StatusInternalServerError))
             ELSE terminal' = Append(terminal, WriteResult(
                     [AppRevision |-> local.encodedRevision,
                      Notifications |-> LatestNotifications(notificationEvents)]))
          /\ pc' = "return"
    /\ UNCHANGED <<handler, request, local, effects, ui>>

----------------------------------------------------------------------------
(* latest_app_revisions.go *)

LatestAppRevisionsRequests ==
    [decodeOk : BOOLEAN, DeploymentTargetID : DeploymentTargetIDs,
     projectID : ProjectIDs, clusterID : ClusterIDs]

LatestAppRevisionsValidate_NoNilCheck(req) ==
    IF ~req.decodeOk THEN StatusBadRequest
    ELSE IF uuid_Parse(req.DeploymentTargetID).err THEN StatusBadRequest
    ELSE 0

LatestAppRevisionsValidate(req) ==
    IF ~req.decodeOk THEN StatusBadRequest
    ELSE IF uuid_Parse(req.DeploymentTargetID).err THEN StatusBadRequest
    ELSE IF uuid_Parse(req.DeploymentTargetID).value = NilUUID THEN StatusBadRequest
    ELSE 0

\* res.AppRevisions = append(res.AppRevisions, LatestRevisionWithSource{...})
AppendRevisionWithSource_Prepend(res, encodedRevision, porterApp) ==
    <<[AppRevision |-> encodedRevision, Source |-> ToPorterAppType(porterApp)]>> \o res

AppendRevisionWithSource(res, encodedRevision, porterApp) ==
    Append(res, [AppRevision |-> encodedRevision, Source |-> ToPorterAppType(porterApp)])

LatestAppRevisions_ServeHTTP ==
    /\ handler = "none"
    /\ \E req \in LatestAppRevisionsRequests :
          /\ ~req.decodeOk => req.DeploymentTargetID = ""
          /\ request' = req
    /\ handler' = "LatestAppRevisions"
    /\ pc' = "validate"
    /\ local' = [appRevisions |-> <<>>, nilList |-> FALSE, i |-> 1, res |-> <<>>]
    /\ calls' = <<>>
    /\ terminal' = <<>>
    /\ UNCHANGED dashboard

LatestAppRevisions_Validate_NoReturn ==
    /\ handler = "LatestAppRevisions" /\ pc = "validate"
    /\ IF LatestAppRevisionsValidate(request) # 0
       THEN terminal' = Append(terminal, HandleAPIError(LatestAppRevisionsValidate(request)))
       ELSE UNCHANGED terminal
    /\ pc' = "LatestAppRevisions"
    /\ UNCHANGED <<handler, request, local, calls, effects, ui>>

LatestAppRevisions_Validate ==
    /\ handler = "LatestAppRevisions" /\ pc = "validate"
    /\ IF LatestAppRevisionsValidate(request) # 0
       THEN /\ terminal' = Append(terminal, HandleAPIError(LatestAppRevisionsValidate(request)))
            /\ pc' = "return"
       ELSE /\ pc' = "LatestAppRevisions"
            /\ UNCHANGED terminal
    /\ UNCHANGED <<handler, request, local, calls, effects, ui>>

\* the control plane answers with an error, a nil response or message, or a
\* message whose AppRevisions is nil or a list
LatestAppRevisions_LatestAppRevisions ==
    /\ handler = "LatestAppRevisions" /\ pc = "LatestAppRevisions"
    /\ \E outcome \in {"err", "nil", "msg"}, nilList \in BOOLEAN,
          appRevisions \in SeqsUpTo(AppRevisions, MaxRevisions) :
          /\ (outcome # "msg" \/ nilList) => appRevisions = <<>>
          /\ outcome # "msg" => ~nilList
          /\ calls' = Append(calls, Call("LatestAppRevisions",
                         [ProjectId |-> request.projectID,
                          DeploymentTargetId |-> uuid_Parse(request.DeploymentTargetID).value],
                         outcome = "err",
                         [nil |-> outcome # "msg", nilList |-> nilList,
                          AppRevisions |-> appRevisions]))
          /\ IF outcome # "msg"
             THEN /\ terminal' = Append(terminal, HandleAPIError(StatusInternalServerError))
                  /\ pc' = "return"
                  /\ UNCHANGED local
             ELSE /\ local' = [appRevisions |-> appRevisions, nilList |-> nilList,
                               i |-> 1, res |-> <<>>]
                  /\ pc' = "range"
                  /\ UNCHANGED terminal
    /\ UNCHANGED <<handler, request, effects, ui>>

LatestAppRevisions_Range_SkipNil ==
    /\ handler = "LatestAppRevisions" /\ pc = "range"
    /\ local.i <= Len(local.appRevisions)
    /\ LET revision == local.appRevisions[local.i]
           encoded == EncodedRevisionFromProto(revision)
       IN IF encoded.err
          THEN /\ terminal' = Append(terminal, HandleAPIError(StatusInternalServerError))
               /\ pc' = "return"
               /\ UNCHANGED <<local, calls>>
          ELSE \E outcome \in {"err", "nil", "app"}, porterApp \in PorterApps(revision.AppName) :
                 /\ outcome # "app" => porterApp = [ID |-> 0, Name |-> revision.AppName]
                 /\ calls' = Append(calls, Call("ReadPorterAppByName",
                                [ClusterID |-> request.clusterID, Name |-> revision.AppName],
                                outcome = "err", [nil |-> outcome # "app", app |-> porterApp]))
                 /\ IF outcome = "err"
                    THEN /\ terminal' = Append(terminal, HandleAPIError(StatusInternalServerError))
                         /\ pc' = "return"
                         /\ UNCHANGED local
                    ELSE IF outcome = "nil"
                    THEN /\ local' = [local EXCEPT !.i = @ + 1]
                         /\ UNCHANGED <<pc, terminal>>
                    ELSE /\ local' = [local EXCEPT
                                !.res = AppendRevisionWithSource(@, encoded.value, porterApp),
                                !.i = @ + 1]
                         /\ UNCHANGED <<pc, terminal>>
    /\ UNCHANGED <<handler, request, effects, ui>>

\* one iteration of the loop over appRevisions
LatestAppRevisions_Range ==
    /\ handler = "LatestAppRevisions" /\ pc = "range"
    /\ local.i <= Len(local.appRevisions)
    /\ LET revision == local.appRevisions[local.i]
           encoded == EncodedRevisionFromProto(revision)
       IN IF encoded.err
          THEN /\ terminal' = Append(terminal, HandleAPIError(StatusInternalServerError))
               /\ pc' = "return"
               /\ UNCHANGED <<local, calls>>
          ELSE \E outcome \in {"err", "nil", "app"}, porterApp \in PorterApps(revision.AppName) :
                 /\ outcome # "app" => porterApp = [ID |-> 0, Name |-> revision.AppName]
                 /\ calls' = Append(calls, Call("ReadPorterAppByName",
                                [ClusterID |-> request.clusterID, Name |-> revision.AppName],
                                outcome = "err", [nil |-> outcome # "app", app |-> porterApp]))
                 /\ IF outcome # "app"
                    THEN /\ terminal' = Append(terminal, HandleAPIError(StatusInternalServerError))
                         /\ pc' = "return"
                         /\ UNCHANGED local
                    ELSE /\ local' = [local EXCEPT
                                !.res = AppendRevisionWithSource(@, encoded.value, porterApp),
                                !.i = @ + 1]
                         /\ UNCHANGED <<pc, terminal>>
    /\ UNCHANGED <<handler, request, effects, ui>>

\* the loop is over: the list is written
LatestAppRevisions_WriteResult ==
    /\ handler = "LatestAppRevisions" /\ pc = "range"
    /\ local.i > Len(local.appRevisions)
    /\ terminal' = Append(terminal, WriteResult([AppRevisions |-> local.res]))
    /\ pc' = "return"
    /\ UNCHANGED <<handler, request, local, calls, effects, ui>>

----------------------------------------------------------------------------
(* AppDataContainer: onSubmit and the confirm-redeploy modal *)

DEFAULT_TAB == "activity"

RevisionStatuses == {"BUILD_FAILED", "PREDEPLOY_FAILED", "DEPLOYED"}

\* what one submit reads: the form data, the memoized buildIsDirty, and the
\* project, revision, source and deployment target of the context
SubmitInputs ==
    [buildIsDirty : BOOLEAN, status : RevisionStatuses, redeployOnSave : BOOLEAN,
     beta_features_enabled : BOOLEAN, sourceType : {"github", "docker-registry"},
     hasBuild : BOOLEAN, isPreview : BOOLEAN, name : {"web"}, targetId : {SomeUUID}]

Effect(effect, arg, threw) == [effect |-> effect, arg |-> arg, threw |-> threw]

needsRebuild(in) ==
    in.buildIsDirty \/ in.status = "BUILD_FAILED" \/ in.status = "PREDEPLOY_FAILED"

\* the next await of onSubmit after each one that resolved
AfterReRunGHWorkflow(in) == "invalidateQueries"

AfterUpdateBuildSettings(in) == "reRunGHWorkflow"

AfterApplyApp(in) ==
    IF in.sourceType = "github" /\ needsRebuild(in)
    THEN IF in.beta_features_enabled /\ in.hasBuild
         THEN "updateBuildSettings"
         ELSE "reRunGHWorkflow"
    ELSE "invalidateQueries"

AfterUpdateApp(in) ==
    IF ~in.beta_features_enabled THEN "applyApp" ELSE AfterApplyApp(in)

AfterValidateApp_NoConfirm(in) ==
    IF in.beta_features_enabled /\ ~needsRebuild(in)
    THEN "updateApp"
    ELSE AfterUpdateApp(in)

AfterValidateApp(in) ==
    IF needsRebuild(in) /\ ~in.redeployOnSave
    THEN "confirm"
    ELSE IF in.beta_features_enabled /\ ~needsRebuild(in)
    THEN "updateApp"
    ELSE AfterUpdateApp(in)

SubmitRedirect_NeverPreview(in) ==
    "/apps/" \o in.name \o "/" \o DEFAULT_TAB

\* where a successful submit navigates to
SubmitRedirect(in) ==
    IF in.isPreview
    THEN "/preview-environments/apps/" \o in.name \o "/" \o DEFAULT_TAB
            \o "?target=" \o in.targetId
    ELSE "/apps/" \o in.name \o "/" \o DEFAULT_TAB

\* handleSubmit runs the callback on the form data
AppDataContainer_onSubmit ==
    /\ handler = "none"
    /\ \E in \in SubmitInputs : request' = in
    /\ handler' = "onSubmit"
    /\ pc' = "validateApp"
    /\ effects' = <<>>
    /\ UNCHANGED <<local, calls, terminal, ui>>

\* the modal's confirm button: close the modal and submit again
AppDataContainer_finalizeDeploy ==
    /\ handler = "none"
    /\ ui.confirmDeployModalOpen
    /\ \E in \in SubmitInputs : request' = in
    /\ ui' = [ui EXCEPT !.confirmDeployModalOpen = FALSE]
    /\ handler' = "onSubmit"
    /\ pc' = "validateApp"
    /\ effects' = <<>>
    /\ UNCHANGED <<local, calls, terminal>>

\* the modal's cancel button: reset the form and close the modal
AppDataContainer_cancelRedeploy ==
    /\ handler = "none"
    /\ ui.confirmDeployModalOpen
    /\ ui' = [ui EXCEPT !.confirmDeployModalOpen = FALSE]
    /\ UNCHANGED <<handler, pc, request, local, calls, terminal, effects>>

onSubmit_validateApp_IgnoreThrow ==
    /\ handler = "onSubmit" /\ pc = "validateApp"
    /\ \E threw \in BOOLEAN :
          IF ~threw /\ AfterValidateApp(request) = "confirm"
          THEN /\ effects' = effects \o <<Effect("validateApp", "", FALSE),
                                         Effect("setConfirmDeployModalOpen", "true", FALSE)>>
               /\ ui' = [ui EXCEPT !.confirmDeployModalOpen = TRUE]
               /\ pc' = "return"
          ELSE /\ effects' = Append(effects, Effect("validateApp", "", threw))
               /\ pc' = AfterValidateApp_NoConfirm(request)
               /\ UNCHANGED ui
    /\ UNCHANGED <<handler, request, local, calls, terminal>>

onSubmit_validateApp ==
    /\ handler = "onSubmit" /\ pc = "validateApp"
    /\ \E threw \in BOOLEAN :
          IF threw
          THEN /\ effects' = Append(effects, Effect("validateApp", "", TRUE))
               /\ pc' = "catch"
               /\ UNCHANGED ui
          ELSE IF AfterValidateApp(request) = "confirm"
          THEN /\ effects' = effects \o <<Effect("validateApp", "", FALSE),
                                         Effect("setConfirmDeployModalOpen", "true", FALSE)>>
               /\ ui' = [ui EXCEPT !.confirmDeployModalOpen = TRUE]
               /\ pc' = "return"
          ELSE /\ effects' = Append(effects, Effect("validateApp", "", FALSE))
               /\ pc' = AfterValidateApp(request)
               /\ UNCHANGED ui
    /\ UNCHANGED <<handler, request, local, calls, terminal>>

onSubmit_updateApp_Swallow ==
    /\ handler = "onSubmit" /\ pc = "updateApp"
    /\ \E threw \in BOOLEAN :
          /\ effects' = Append(effects, Effect("updateApp", "", threw))
          /\ pc' = AfterUpdateApp(request)
    /\ UNCHANGED <<handler, request, local, calls, terminal, ui>>

onSubmit_updateApp ==
    /\ handler = "onSubmit" /\ pc = "updateApp"
    /\ \E threw \in BOOLEAN :
          /\ effects' = Append(effects, Effect("updateApp", "", threw))
          /\ pc' = IF threw THEN "catch" ELSE AfterUpdateApp(request)
    /\ UNCHANGED <<handler, request, local, calls, terminal, ui>>

onSubmit_applyApp ==
    /\ handler = "onSubmit" /\ pc = "applyApp"
    /\ \E threw \in BOOLEAN :
          /\ effects' = Append(effects,
                Effect("applyApp",
                       IF needsRebuild(request) THEN "force_build" ELSE "", threw))
          /\ pc' = IF threw THEN "catch" ELSE AfterApplyApp(request)
    /\ UNCHANGED <<handler, request, local, calls, terminal, ui>>

onSubmit_updateBuildSettings ==
    /\ handler = "onSubmit" /\ pc = "updateBuildSettings"
    /\ \E threw \in BOOLEAN :
          /\ effects' = Append(effects, Effect("updateBuildSettings", "", threw))
          /\ pc' = IF threw THEN "catch" ELSE AfterUpdateBuildSettings(request)
    /\ UNCHANGED <<handler, request, local, calls, terminal, ui>>

\* the workflow run's URL, when the response carries one, is opened in a tab
onSubmit_reRunGHWorkflow ==
    /\ handler = "onSubmit" /\ pc = "reRunGHWorkflow"
    /\ \E threw \in BOOLEAN, hasData \in BOOLEAN :
          /\ threw => ~hasData
          /\ effects' = effects \o <<Effect("reRunGHWorkflow", "", threw)>>
                \o (IF hasData THEN <<Effect("window.open", "", FALSE)>> ELSE <<>>)
          /\ pc' = IF threw THEN "catch" ELSE AfterReRunGHWorkflow(request)
    /\ UNCHANGED <<handler, request, local, calls, terminal, ui>>

\* the end of the try block: invalidate, clear the preview revision, navigate
onSubmit_invalidateQueries ==
    /\ handler = "onSubmit" /\ pc = "invalidateQueries"
    /\ effects' = effects \o <<Effect("invalidateQueries", "getLatestRevision", FALSE),
                               Effect("setPreviewRevision", "null", FALSE),
                               Effect("history.push", SubmitRedirect(request), FALSE)>>
    /\ ui' = [ui EXCEPT !.previewRevision = Nil, !.location = SubmitRedirect(request)]
    /\ pc' = "return"
    /\ UNCHANGED <<handler, request, local, calls, terminal>>

onSubmit_catch ==
    /\ handler = "onSubmit" /\ pc = "catch"
    /\ effects' = effects \o <<Effect("showIntercomWithMessage", "", FALSE),
                               Effect("updateAppStep", "porter-app-update-failure", FALSE),
                               Effect("setError", "app", FALSE)>>
    /\ pc' = "return"
    /\ UNCHANGED <<handler, request, local, calls, terminal, ui>>

----------------------------------------------------------------------------
(* GithubActionModal: submit *)

\* what one submit of the modal reads: whether every prop the request needs
\* is set, whether a deployPorterApp callback was passed, and the choices
ModalInputs ==
    [complete : BOOLEAN, hasDeployPorterApp : BOOLEAN,
     choice : {"open_pr", "copy"}, isChecked : BOOLEAN, stackName : {"web"}]

\* where submit goes once deployPorterApp resolved
AfterDeployPorterApp_IgnoreSuccess(success) == "createSecretAndOpenGitHubPullRequest"

AfterDeployPorterApp(success) ==
    IF success THEN "createSecretAndOpenGitHubPullRequest" ELSE "finally"

GithubActionModal_submit ==
    /\ handler = "none"
    /\ \E in \in ModalInputs :
          /\ request' = in
          /\ IF ~in.complete
             THEN /\ effects' = <<Effect("console.log", "missing information", FALSE)>>
                  /\ pc' = "return"
             ELSE /\ effects' = <<Effect("setLoading", "true", FALSE)>>
                  /\ pc' = IF in.hasDeployPorterApp
                           THEN "deployPorterApp"
                           ELSE AfterDeployPorterApp(TRUE)
    /\ handler' = "GithubActionModal"
    /\ UNCHANGED <<local, calls, terminal, ui>>

submit_deployPorterApp ==
    /\ handler = "GithubActionModal" /\ pc = "deployPorterApp"
    /\ \E threw \in BOOLEAN, success \in BOOLEAN :
          /\ threw => ~success
          /\ effects' = Append(effects,
                Effect("deployPorterApp", IF success THEN "true" ELSE "false", threw))
          /\ pc' = IF threw THEN "finally" ELSE AfterDeployPorterApp(success)
    /\ UNCHANGED <<handler, request, local, calls, terminal, ui>>

\* the request that creates the secret and possibly the pull request, and
\* what follows it when it resolves
submit_createSecretAndOpenGitHubPullRequest ==
    /\ handler = "GithubActionModal" /\ pc = "createSecretAndOpenGitHubPullRequest"
    /\ \E threw \in BOOLEAN, hasUrl \in BOOLEAN :
          /\ threw => ~hasUrl
          /\ LET open_pr == request.choice = "open_pr" \/ request.isChecked
                 called == Effect("createSecretAndOpenGitHubPullRequest",
                                  IF open_pr THEN "open_pr" ELSE "", threw)
             IN IF threw
                THEN /\ effects' = Append(effects, called)
                     /\ UNCHANGED ui
                ELSE /\ effects' = effects \o <<called>>
                        \o (IF hasUrl THEN <<Effect("window.open", "", FALSE)>> ELSE <<>>)
                        \o (IF hasUrl /\ ~request.hasDeployPorterApp
                            THEN <<Effect("window.location.reload", "", FALSE)>> ELSE <<>>)
                        \o <<Effect("history.push", "/apps/" \o request.stackName, FALSE)>>
                     /\ ui' = [ui EXCEPT !.location = "/apps/" \o request.stackName]
          /\ pc' = "finally"
    /\ UNCHANGED <<handler, request, local, calls, terminal>>

submit_finally ==
    /\ handler = "GithubActionModal" /\ pc = "finally"
    /\ effects' = Append(effects, Effect("setLoading", "false", FALSE))
    /\ pc' = "return"
    /\ UNCHANGED <<handler, request, local, calls, terminal, ui>>

----------------------------------------------------------------------------
(* The handler returns; the server is ready for the next request *)

Return ==
    /\ handler # "none" /\ pc = "return"
    /\ handler' = "none"
    /\ pc' = "idle"
    /\ request' = Nil
    /\ local' = Nil
    /\ calls' = <<>>
    /\ terminal' = <<>>
    /\ effects' = <<>>
    /\ UNCHANGED ui

Init ==
    /\ handler = "none"
    /\ pc = "idle"
    /\ request = Nil
    /\ local = Nil
    /\ calls = <<>>
    /\ terminal = <<>>
    /\ effects = <<>>
    /\ ui \in [confirmDeployModalOpen : {FALSE},
                previewRevision : {Nil, "rev-1"}, location : {"/apps/web/environment"}]

Next ==
    \/ PodStatus_ServeHTTP
    \/ PodStatus_Validate
    \/ PodStatus_DeploymentTargetDetails
    \/ PodStatus_GetAgent
    \/ PodStatus_GetPodsByLabel
    \/ LatestAppRevision_ServeHTTP
    \/ LatestAppRevision_Validate
    \/ LatestAppRevision_ReadPorterApps
    \/ LatestAppRevision_CurrentAppRevision
    \/ LatestAppRevision_ReadNotifications
    \/ LatestAppRevisions_ServeHTTP
    \/ LatestAppRevisions_Validate
    \/ LatestAppRevisions_LatestAppRevisions
    \/ LatestAppRevisions_Range
    \/ LatestAppRevisions_WriteResult
    \/ AppDataContainer_onSubmit
    \/ AppDataContainer_finalizeDeploy
    \/ AppDataContainer_cancelRedeploy
    \/ onSubmit_validateApp
    \/ onSubmit_updateApp
    \/ onSubmit_applyApp
    \/ onSubmit_updateBuildSettings
    \/ onSubmit_reRunGHWorkflow
    \/ onSubmit_invalidateQueries
    \/ onSubmit_catch
    \/ GithubActionModal_submit
    \/ submit_deployPorterApp
    \/ submit_createSecretAndOpenGitHubPullRequest
    \/ submit_finally
    \/ Return

Spec == Init /\ [][Next]_vars

----------------------------------------------------------------------------
(* AppDataContainer: the form state and the unsaved-changes banner *)

\* names of form fields
FieldNames == {"expanded", "id", "name"}

\* a leaf of dirtyFields: where it is and the boolean it holds
DirtyLeaves == [path : SeqsUpTo(FieldNames, MaxDepth) \ {<<>>}, value : BOOLEAN]

IsPrefix(p, q) == Len(p) <= Len(q) /\ SubSeq(q, 1, Len(p)) = p

\* the leaves of one dirtyFields object: no leaf lies at or under another
DirtyLeafSets ==
    {ls \in {{s[k] : k \in DOMAIN s} : s \in SeqsUpTo(DirtyLeaves, MaxFields)} :
        \A a, b \in ls : a # b => ~IsPrefix(a.path, b.path)}

\* the dirtyFields object with the given leaves: booleans nested in objects
RECURSIVE DirtyFieldsOf(_)
DirtyFieldsOf(leaves) ==
    [kind |-> "object",
     fields |-> [k \in {l.path[1] : l \in leaves} |->
        IF \E l \in leaves : l.path = <<k>>
        THEN [kind |-> "boolean", b |-> (CHOOSE l \in leaves : l.path = <<k>>).value]
        ELSE DirtyFieldsOf({[path |-> Tail(l.path), value |-> l.value] :
                              l \in {x \in leaves : x.path[1] = k}})]]

\* getAllDirtyFields: the keys of all entries that hold true, at any depth
RECURSIVE getAllDirtyFields_TopLevelOnly(_)
getAllDirtyFields_TopLevelOnly(dirtyFields) ==
    IF DOMAIN dirtyFields.fields = {} THEN <<>>
    ELSE LET key == CHOOSE k \in DOMAIN dirtyFields.fields : TRUE
             value == dirtyFields.fields[key]
             rest == [kind |-> "object",
                      fields |-> [k \in DOMAIN dirtyFields.fields \ {key} |->
                                     dirtyFields.fields[k]]]
         IN (IF value.kind = "boolean" /\ value.b THEN <<key>> ELSE <<>>)
               \o getAllDirtyFields_TopLevelOnly(rest)

RECURSIVE getAllDirtyFields(_)
getAllDirtyFields(dirtyFields) ==
    IF DOMAIN dirtyFields.fields = {} THEN <<>>
    ELSE LET key == CHOOSE k \in DOMAIN dirtyFields.fields : TRUE
             value == dirtyFields.fields[key]
             rest == [kind |-> "object",
                      fields |-> [k \in DOMAIN dirtyFields.fields \ {key} |->
                                     dirtyFields.fields[k]]]
         IN (IF value.kind = "boolean"
             THEN (IF value.b THEN <<key>> ELSE <<>>)
             ELSE getAllDirtyFields(value))
               \o getAllDirtyFields(rest)

onlyExpandedChanged(isDirty, dirtyFields) ==
    IF ~isDirty THEN FALSE
    ELSE LET dirty == getAllDirtyFields(dirtyFields)
         IN \A k \in 1..Len(dirty) : dirty[k] = "expanded" \/ dirty[k] = "id"

\* the height of the AnimateHeight around the banner is "auto"
BannerVisible(isDirty, dirtyFields) ==
    isDirty /\ ~onlyExpandedChanged(isDirty, dirtyFields)

\* the user edits the form: react-hook-form publishes a new form state
Form_change ==
    /\ handler = "AppDataContainer"
    /\ pc = "mounted"
    /\ \E isDirty \in BOOLEAN, leaves \in DirtyLeafSets :
          request' = [isDirty |-> isDirty, dirtyFields |-> DirtyFieldsOf(leaves),
                      leaves |-> leaves]
    /\ pc' = "render"
    /\ UNCHANGED <<handler, local, calls, terminal, effects, ui>>

\* the component renders with the form state
Form_render ==
    /\ handler = "AppDataContainer"
    /\ pc = "render"
    /\ local' = [onlyExpandedChanged |->
                    onlyExpandedChanged(request.isDirty, request.dirtyFields),
                 bannerVisible |-> BannerVisible(request.isDirty, request.dirtyFields)]
    /\ pc' = "rendered"
    /\ UNCHANGED <<handler, request, calls, terminal, effects, ui>>

\* reset(): the form goes back to its default values
Form_reset ==
    /\ handler = "AppDataContainer"
    /\ pc = "rendered"
    /\ request' = [isDirty |-> FALSE, dirtyFields |-> DirtyFieldsOf({}), leaves |-> {}]
    /\ local' = [onlyExpandedChanged |-> FALSE, bannerVisible |-> FALSE]
    /\ pc' = "mounted"
    /\ UNCHANGED <<handler, calls, terminal, effects, ui>>

InitForm ==
    /\ handler = "AppDataContainer"
    /\ pc = "mounted"
    /\ request = [isDirty |-> FALSE, dirtyFields |-> DirtyFieldsOf({}), leaves |-> {}]
    /\ local = [onlyExpandedChanged |-> FALSE, bannerVisible |-> FALSE]
    /\ calls = <<>>
    /\ terminal = <<>>
    /\ effects = <<>>
    /\ ui = [confirmDeployModalOpen |-> FALSE, previewRevision |-> Nil,
             location |-> "/apps/web/environment"]

NextForm ==
    \/ Form_change
    \/ Form_render
    \/ Form_reset

SpecForm == InitForm /\ [][NextForm]_vars

----------------------------------------------------------------------------
(* useDefaultDeploymentTarget *)

Undefined == [defined |-> FALSE, id |-> 0, validate_apply_v2 |-> FALSE]

\* currentProject and currentCluster of the Context; a cluster id of -1 is
\* the placeholder cluster
CurrentProjects ==
    {Undefined} \cup [defined : {TRUE}, id : {0, 1, 2}, validate_apply_v2 : BOOLEAN]
CurrentClusters ==
    {Undefined} \cup [defined : {TRUE}, id : {-1, 0, 5}, validate_apply_v2 : {FALSE}]

NoData == [defined |-> FALSE, deployment_target_id |-> ""]

\* the deployment target the API holds for a project and cluster
DefaultDeploymentTarget(projectId, clusterId) ==
    [defined |-> TRUE,
     deployment_target_id |-> <<"target", projectId, clusterId>>]

QueryKey(ctx) == <<"getDefaultDeploymentTarget", ctx.currentProject.id, ctx.currentCluster.id>>

\* the enabled option of useQuery
QueryEnabled(ctx) ==
    /\ ctx.currentProject.defined
    /\ ctx.currentCluster.defined
    /\ ctx.currentProject.validate_apply_v2

\* the early return of the query function
QueryFnReturnsEarly_NoPlaceholderCheck(ctx) ==
    \/ ~ctx.currentProject.defined \/ ctx.currentProject.id = 0
    \/ ~ctx.currentCluster.defined \/ ctx.currentCluster.id = 0

QueryFnReturnsEarly(ctx) ==
    \/ ~ctx.currentProject.defined \/ ctx.currentProject.id = 0
    \/ ~ctx.currentCluster.defined \/ ctx.currentCluster.id = 0
    \/ ctx.currentCluster.id = -1

\* the Context changes and the component using the hook renders again
Hook_render ==
    /\ handler = "useDefaultDeploymentTarget"
    /\ pc = "idle"
    /\ \E p \in CurrentProjects, c \in CurrentClusters :
          LET ctx == [currentProject |-> p, currentCluster |-> c]
          IN /\ request' = ctx
             /\ local' = [data |-> IF QueryKey(ctx) = QueryKey(request)
                                   THEN local.data ELSE NoData,
                          deploymentTarget |-> local.deploymentTarget,
                          before |-> local.deploymentTarget]
             /\ pc' = IF QueryEnabled(ctx) THEN "queryFn" ELSE "useEffect"
    /\ effects' = <<>>
    /\ UNCHANGED <<handler, calls, terminal, ui>>

\* the query function runs: it returns early, or issues the request and
\* validates the response
Hook_queryFn ==
    /\ handler = "useDefaultDeploymentTarget"
    /\ pc = "queryFn"
    /\ IF QueryFnReturnsEarly(request)
       THEN /\ local' = [local EXCEPT !.data = NoData]
            /\ UNCHANGED effects
       ELSE \E threw \in BOOLEAN :
               /\ effects' = Append(effects,
                     Effect("getDefaultDeploymentTarget",
                            <<request.currentProject.id, request.currentCluster.id>>, threw))
               /\ local' = [local EXCEPT !.data =
                     IF threw THEN @
                     ELSE DefaultDeploymentTarget(request.currentProject.id,
                                                  request.currentCluster.id)]
    /\ pc' = "useEffect"
    /\ UNCHANGED <<handler, request, calls, terminal, ui>>

\* useEffect on data
Hook_useEffect ==
    /\ handler = "useDefaultDeploymentTarget"
    /\ pc = "useEffect"
    /\ local' = [local EXCEPT !.deploymentTarget = IF local.data.defined THEN local.data ELSE @]
    /\ pc' = "idle"
    /\ UNCHANGED <<handler, request, calls, terminal, effects, ui>>

InitHook ==
    /\ handler = "useDefaultDeploymentTarget"
    /\ pc = "idle"
    /\ request = [currentProject |-> Undefined, currentCluster |-> Undefined]
    /\ local = [data |-> NoData, deploymentTarget |-> NoData, before |-> NoData]
    /\ calls = <<>>
    /\ terminal = <<>>
    /\ effects = <<>>
    /\ ui = [confirmDeployModalOpen |-> FALSE, previewRevision |-> Nil,
             location |-> "/apps/web/environment"]

NextHook ==
    \/ Hook_render
    \/ Hook_queryFn
    \/ Hook_useEffect

SpecHook == InitHook /\ [][NextHook]_vars

----------------------------------------------------------------------------
(* router: New *)

StatusForbidden == 403
StatusNotFound == 404
StatusMethodNotAllowed == 405

Route(method, pattern, wrapped, h) ==
    [method |-> method, pattern |-> pattern, wrapped |-> wrapped, handler |-> h]

\* the routes registered under /api, in the order of registration; wrapped
\* says that the handler is passed to auth.DoesUserIDMatch
Routes_UpdateUnwrapped ==
    <<Route("GET", <<"users", "{id}">>, TRUE, "HandleReadUser"),
      Route("GET", <<"users", "{id}", "clusters">>, TRUE, "HandleReadUserClusters"),
      Route("GET", <<"users", "{id}", "clusters", "all">>, TRUE, "HandleReadUserClustersAll"),
      Route("POST", <<"users">>, FALSE, "HandleCreateUser"),
      Route("PUT", <<"users", "{id}">>, FALSE, "HandleUpdateUser"),
      Route("DELETE", <<"users", "{id}">>, TRUE, "HandleDeleteUser"),
      Route("POST", <<"login">>, FALSE, "HandleLoginUser"),
      Route("GET", <<"auth", "check">>, FALSE, "HandleAuthCheck")>>

Routes ==
    <<Route("GET", <<"users", "{id}">>, TRUE, "HandleReadUser"),
      Route("GET", <<"users", "{id}", "clusters">>, TRUE, "HandleReadUserClusters"),
      Route("GET", <<"users", "{id}", "clusters", "all">>, TRUE, "HandleReadUserClustersAll"),
      Route("POST", <<"users">>, FALSE, "HandleCreateUser"),
      Route("PUT", <<"users", "{id}">>, TRUE, "HandleUpdateUser"),
      Route("DELETE", <<"users", "{id}">>, TRUE, "HandleDeleteUser"),
      Route("POST", <<"login">>, FALSE, "HandleLoginUser"),
      Route("GET", <<"auth", "check">>, FALSE, "HandleAuthCheck")>>

\* request methods, and the segments of request paths below /api; a path
\* parameter takes any single segment
Methods == {"GET", "POST", "PUT", "DELETE", "PATCH"}
PathParams == {"1", "2", "login"}
Paths ==
    {<<"users">>, <<"login">>, <<"auth", "check">>, <<"auth">>}
        \cup {<<"users", id>> : id \in PathParams}
        \cup {<<"users", id, "clusters">> : id \in PathParams}
        \cup {<<"users", id, "clusters", "all">> : id \in PathParams}
        \cup {<<"users", id, "all">> : id \in PathParams}

\* chi's match of a path against a route pattern
PatternMatches(pattern, path) ==
    /\ Len(pattern) = Len(path)
    /\ \A k \in 1..Len(path) : pattern[k] = "{id}" \/ pattern[k] = path[k]

RouteCall(op, ok) == [op |-> op, ok |-> ok]

RouterReply(status) == [call |-> "router", status |-> status]

Router_ServeHTTP ==
    /\ handler = "router"
    /\ pc \in {"idle", "return"}
    /\ \E method \in Methods, path \in Paths :
          request' = [method |-> method, path |-> path]
    /\ local' = [route |-> 0]
    /\ calls' = <<>>
    /\ terminal' = <<>>
    /\ pc' = "route"
    /\ UNCHANGED <<handler, effects, ui>>

\* the mux finds the route of the request: 404 when no pattern matches, 405
\* when a pattern matches under other methods only
Router_Route ==
    /\ handler = "router"
    /\ pc = "route"
    /\ LET byPath == {k \in 1..Len(Routes) : PatternMatches(Routes[k].pattern, request.path)}
           found == {k \in byPath : Routes[k].method = request.method}
       IN IF byPath = {}
          THEN /\ terminal' = Append(terminal, RouterReply(StatusNotFound))
               /\ pc' = "return"
               /\ UNCHANGED local
          ELSE IF found = {}
          THEN /\ terminal' = Append(terminal, RouterReply(StatusMethodNotAllowed))
               /\ pc' = "return"
               /\ UNCHANGED local
          ELSE LET k == CHOOSE k \in found : \A j \in found : k <= j
               IN /\ local' = [route |-> k]
                  /\ pc' = IF Routes[k].wrapped THEN "DoesUserIDMatch" ELSE "requestlog"
                  /\ UNCHANGED terminal
    /\ UNCHANGED <<handler, request, calls, effects, ui>>

\* auth.DoesUserIDMatch: calls the handler it wraps, or answers itself
Router_DoesUserIDMatch ==
    /\ handler = "router"
    /\ pc = "DoesUserIDMatch"
    /\ \E ok \in BOOLEAN :
          /\ calls' = Append(calls, RouteCall("DoesUserIDMatch", ok))
          /\ IF ok
             THEN /\ pc' = "requestlog"
                  /\ UNCHANGED terminal
             ELSE /\ terminal' = Append(terminal, RouterReply(StatusForbidden))
                  /\ pc' = "return"
    /\ UNCHANGED <<handler, request, local, effects, ui>>

\* requestlog.NewHandler: logs the request and calls the App's handler
Router_requestlog ==
    /\ handler = "router"
    /\ pc = "requestlog"
    /\ calls' = calls \o <<RouteCall("requestlog", TRUE),
                           RouteCall(Routes[local.route].handler, TRUE)>>
    /\ terminal' = Append(terminal, [call |-> Routes[local.route].handler, status |-> 0])
    /\ pc' = "return"
    /\ UNCHANGED <<handler, request, local, effects, ui>>

InitRouter ==
    /\ handler = "router"
    /\ pc = "idle"
    /\ request = [method |-> "GET", path |-> <<>>]
    /\ local = [route |-> 0]
    /\ calls = <<>>
    /\ terminal = <<>>
    /\ effects = <<>>
    /\ ui = [confirmDeployModalOpen |-> FALSE, previewRevision |-> Nil,
             location |-> "/apps/web/environment"]

NextRouter ==
    \/ Router_ServeHTTP
    \/ Router_Route
    \/ Router_DoesUserIDMatch
    \/ Router_requestlog

SpecRouter == InitRouter /\ [][NextRouter]_vars

----------------------------------------------------------------------------
(* Helpers of the properties *)

GoHandlers == {"PodStatus", "LatestAppRevision", "LatestAppRevisions"}

CallsOf(op) == {k \in 1..Len(calls) : calls[k].op = op}

RangeOf(f) == {f[k] : k \in DOMAIN f}

\* a downstream call failed: it returned an error, or nothing where a value
\* is required
CallFailed(c) ==
    \/ c.err
    \/ c.op \in {"CurrentAppRevision", "LatestAppRevisions", "ReadPorterAppByName"}
          /\ c.value.nil

\* the request of the running handler did not pass the handler's validation
ValidationFailed ==
    CASE handler = "PodStatus" ->
            ~request.decodeOk \/ request.appNameErr \/ request.DeploymentTargetID = <<>>
      [] handler = "LatestAppRevision" ->
            request.appNameErr \/ ~request.decodeOk
                \/ uuid_Parse(request.DeploymentTargetID).err
      [] handler = "LatestAppRevisions" ->
            ~request.decodeOk \/ uuid_Parse(request.DeploymentTargetID).err
                \/ uuid_Parse(request.DeploymentTargetID).value = NilUUID
      [] OTHER -> FALSE

\* a downstream call failed or returned something the handler cannot serve
DownstreamFailed ==
    \/ \E k \in 1..Len(calls) : CallFailed(calls[k])
    \/ \E k \in CallsOf("ReadPorterAppsByProjectIDAndName") :
          Len(calls[k].value) # 1 \/ calls[k].value[1].ID = 0
    \/ \E k \in CallsOf("CurrentAppRevision") :
          ~CallFailed(calls[k]) /\ EncodedRevisionFromProto(calls[k].value.AppRevision).err
    \/ \E k \in CallsOf("LatestAppRevisions") :
          ~CallFailed(calls[k])
             /\ \E r \in RangeOf(calls[k].value.AppRevisions) : EncodedRevisionFromProto(r).err

----------------------------------------------------------------------------
(* Properties *)

\* C1: every execution of ServeHTTP of the three handlers ends with exactly
\* one terminal call made by the handler: HandleAPIError if a validation step
\* or a downstream call failed, WriteResult otherwise; the terminal call is
\* the last thing the handler does.
Thm_C1_ExactlyOneTerminalCall ==
    handler \in GoHandlers =>
        /\ Len(terminal) <= 1
        /\ Len(terminal) = 1 <=> pc = "return"
        /\ pc = "return" =>
              IF ValidationFailed \/ DownstreamFailed
              THEN terminal[1].call = "HandleAPIError"
              ELSE terminal[1].call = "WriteResult"

Wit_C1_ErrorAfterThreeCalls ==
    /\ handler = "LatestAppRevision" /\ pc = "return"
    /\ Len(calls) = 3
    /\ terminal = <<HandleAPIError(StatusInternalServerError)>>

\* C2: within one request every downstream operation is invoked at most once
\* (ReadPorterAppByName: once per revision, in the order of the list), and a
\* downstream call that failed is the last downstream call of the request.
Thm_C2_NoRetry ==
    handler \in GoHandlers =>
        /\ \A op \in {calls[k].op : k \in 1..Len(calls)} \ {"ReadPorterAppByName"} :
              Cardinality(CallsOf(op)) = 1
        /\ handler = "LatestAppRevisions" =>
              /\ Cardinality(CallsOf("ReadPorterAppByName")) <= Len(local.appRevisions)
              /\ \A k \in CallsOf("ReadPorterAppByName") :
                    calls[k].args.Name = local.appRevisions[k - 1].AppName
        /\ \A k \in 1..Len(calls) : CallFailed(calls[k]) => k = Len(calls)

Wit_C2_AgentFailed ==
    /\ handler = "PodStatus" /\ pc = "return"
    /\ Len(calls) = 2 /\ calls[2].op = "GetAgent" /\ calls[2].err

\* What a label selector requires, read as the Kubernetes API reads it: the
\* selector is split at its commas, and each part is a key alone (the label
\* must exist) or key=value.
RECURSIVE SplitAtCommas(_)
SplitAtCommas(s) ==
    IF \A k \in 1..Len(s) : s[k] # ","
    THEN <<s>>
    ELSE LET c == CHOOSE k \in 1..Len(s) : s[k] = "," /\ \A j \in 1..(k - 1) : s[j] # ","
         IN <<SubSeq(s, 1, c - 1)>> \o SplitAtCommas(SubSeq(s, c + 1, Len(s)))

Requirement(part) ==
    IF Len(part) >= 2 /\ part[2] = "="
    THEN [key |-> part[1], op |-> "=", value |-> SubSeq(part, 3, Len(part))]
    ELSE [key |-> part[1], op |-> "exists", value |-> <<>>]

Requirements(selectors) ==
    {Requirement(part) : part \in {q \in RangeOf(SplitAtCommas(selectors)) : q # <<>>}}

\* the namespace GetPodsByLabel is called with is the one DeploymentTargetDetails
\* returned for the request's project, cluster and deployment target
PodNamespaceFromDeploymentTarget ==
    \A k \in CallsOf("GetPodsByLabel") :
        \E d \in CallsOf("DeploymentTargetDetails") :
            /\ d < k
            /\ ~calls[d].err
            /\ calls[d].args = [ProjectID |-> request.projectID,
                                ClusterID |-> request.clusterID,
                                DeploymentTargetID |-> request.DeploymentTargetID]
            /\ calls[k].args.namespace = calls[d].value

\* the selector GetPodsByLabel is called with constrains the deployment target
\* and the app name to the request's values, and the service name if and only
\* if the request names a service
PodSelectorConstrains ==
    \A k \in CallsOf("GetPodsByLabel") :
        LET reqs == Requirements(calls[k].args.selectors)
        IN /\ [key |-> DeploymentTargetKey, op |-> "=",
                value |-> request.DeploymentTargetID] \in reqs
           /\ [key |-> AppNameKey, op |-> "=", value |-> request.appName] \in reqs
           /\ (\E r \in reqs : r.key = ServiceNameKey) <=> request.ServiceName # <<>>

\* C3: on a PodStatus request that passes validation, GetPodsByLabel is called
\* with the namespace DeploymentTargetDetails returned for this request, and
\* with a selector that constrains porter.run/deployment-target-id and
\* porter.run/app-name to the request's values and porter.run/service-name
\* if and only if the service parameter is non-empty.
Cex_C3_SelectorConstrainsRequestValues ==
    handler = "PodStatus" =>
        /\ PodNamespaceFromDeploymentTarget
        /\ PodSelectorConstrains

\* C4: a PodStatus request with an empty deployment_target_id is answered
\* with 400, and none of DeploymentTargetDetails, GetAgent and GetPodsByLabel
\* is called.
Thm_C4_EmptyTargetIs400 ==
    (handler = "PodStatus" /\ request.DeploymentTargetID = <<>>) =>
        /\ calls = <<>>
        /\ pc = "return" => terminal = <<HandleAPIError(StatusBadRequest)>>

Wit_C4_EmptyTargetAnswered ==
    /\ handler = "PodStatus" /\ pc = "return"
    /\ request.decodeOk /\ ~request.appNameErr
    /\ request.DeploymentTargetID = <<>>
    /\ request.ServiceName # <<>>

\* C5: LatestAppRevisionHandler serves a request only when the repository
\* returned exactly one porter app: with zero apps or more than one the
\* response is 400 and CurrentAppRevision is never called.
Thm_C5_ExactlyOnePorterApp ==
    handler = "LatestAppRevision" =>
        /\ \A k \in CallsOf("ReadPorterAppsByProjectIDAndName") :
              (~calls[k].err /\ Len(calls[k].value) # 1) =>
                 /\ CallsOf("CurrentAppRevision") = {}
                 /\ pc = "return"
                 /\ terminal = <<HandleAPIError(StatusBadRequest)>>
        /\ (terminal # <<>> /\ terminal[1].call = "WriteResult") =>
              \E k \in CallsOf("ReadPorterAppsByProjectIDAndName") :
                 ~calls[k].err /\ Len(calls[k].value) = 1

Wit_C5_TwoPorterApps ==
    /\ handler = "LatestAppRevision" /\ pc = "return"
    /\ Len(calls) = 1 /\ ~calls[1].err /\ Len(calls[1].value) = 2
    /\ calls[1].value[1].ID # 0

\* C6: on a successful LatestAppRevision request the downstream calls are, in
\* this order, the repository lookup by (project ID, app name), the control
\* plane's CurrentAppRevision with (project ID, the app's ID, the request's
\* deployment_target_id), and the notifications read keyed by the app instance
\* ID and revision ID of the revision the control plane returned; the revision
\* in the response is the encoding of that revision.
Thm_C6_CallOrderOnSuccess ==
    (handler = "LatestAppRevision" /\ terminal # <<>> /\ terminal[1].call = "WriteResult") =>
        /\ Len(calls) = 3
        /\ calls[1].op = "ReadPorterAppsByProjectIDAndName"
        /\ calls[1].args = [ProjectID |-> request.projectID, Name |-> request.appName]
        /\ calls[2].op = "CurrentAppRevision"
        /\ calls[2].args = [ProjectId |-> request.projectID,
                            AppId |-> calls[1].value[1].ID,
                            DeploymentTargetId |-> request.DeploymentTargetID]
        /\ calls[3].op = "ReadNotificationsByAppRevisionID"
        /\ calls[3].args = [AppInstanceID |-> calls[2].value.AppRevision.AppInstanceId,
                            AppRevisionID |-> calls[2].value.AppRevision.Id]
        /\ terminal[1].result.AppRevision =
              EncodedRevisionFromProto(calls[2].value.AppRevision).value

Wit_C6_ServedFromURN ==
    /\ handler = "LatestAppRevision" /\ pc = "return"
    /\ terminal # <<>> /\ terminal[1].call = "WriteResult"
    /\ request.DeploymentTargetID = "urn:uuid:" \o SomeUUID
    /\ Len(terminal[1].result.Notifications) = 1

\* C7: a successful LatestAppRevisions response holds exactly one entry per
\* revision the control plane returned, in the same order, each pairing the
\* encoded revision with the porter app read by (cluster ID, the revision's
\* app name); when the control plane returns no revisions (nil or empty) the
\* response is the empty list, not an error.
Thm_C7_OneEntryPerRevision ==
    handler = "LatestAppRevisions" =>
        /\ (terminal # <<>> /\ terminal[1].call = "WriteResult") =>
              LET returned == calls[1].value.AppRevisions
                  entries == terminal[1].result.AppRevisions
              IN /\ Len(entries) = Len(returned)
                 /\ Len(calls) = Len(returned) + 1
                 /\ \A k \in 1..Len(returned) :
                       /\ entries[k].AppRevision = EncodedRevisionFromProto(returned[k]).value
                       /\ calls[k + 1].op = "ReadPorterAppByName"
                       /\ calls[k + 1].args = [ClusterID |-> request.clusterID,
                                               Name |-> returned[k].AppName]
                       /\ entries[k].Source = ToPorterAppType(calls[k + 1].value.app)
        /\ (pc = "return" /\ calls # <<>> /\ ~CallFailed(calls[1])
                /\ calls[1].value.AppRevisions = <<>>) =>
              terminal = <<WriteResult([AppRevisions |-> <<>>])>>

Wit_C7_TwoDifferentEntries ==
    /\ handler = "LatestAppRevisions" /\ pc = "return"
    /\ terminal # <<>> /\ terminal[1].call = "WriteResult"
    /\ Len(terminal[1].result.AppRevisions) = 2
    /\ terminal[1].result.AppRevisions[1] # terminal[1].result.AppRevisions[2]

\* C8: LatestAppRevisions is all-or-nothing: when the encoding or the porter
\* app lookup fails (error or nil app) for a revision of the list, the
\* response is 500, no list is written, and no lookup is made for the
\* revisions after the failing one.
Thm_C8_AllOrNothing ==
    (handler = "LatestAppRevisions" /\ calls # <<>> /\ ~CallFailed(calls[1])) =>
        LET returned == calls[1].value.AppRevisions
            lookups == Len(calls) - 1
        IN /\ \A k \in 1..Len(returned) :
                 EncodedRevisionFromProto(returned[k]).err =>
                    /\ lookups < k
                    /\ pc = "return" => terminal = <<HandleAPIError(StatusInternalServerError)>>
           /\ \A k \in 2..Len(calls) :
                 CallFailed(calls[k]) =>
                    /\ k = Len(calls)
                    /\ pc = "return"
                    /\ terminal = <<HandleAPIError(StatusInternalServerError)>>
           /\ (terminal # <<>> /\ terminal[1].call = "WriteResult") =>
                 Len(terminal[1].result.AppRevisions) = Len(returned)

Wit_C8_NilAppOnFirstOfTwo ==
    /\ handler = "LatestAppRevisions" /\ pc = "return"
    /\ Len(calls) = 2 /\ Len(calls[1].value.AppRevisions) = 2
    /\ ~calls[2].err /\ calls[2].value.nil

\* C9: LatestAppRevisionHandler and LatestAppRevisionsHandler answer 400 and
\* make no repository or control-plane call when deployment_target_id does not
\* parse as a UUID; LatestAppRevisionsHandler treats the nil UUID the same way.
Thm_C9_BadTargetIDIs400 ==
    LET parsed == uuid_Parse(request.DeploymentTargetID)
    IN (/\ handler \in {"LatestAppRevision", "LatestAppRevisions"}
        /\ parsed.err \/ (handler = "LatestAppRevisions" /\ parsed.value = NilUUID)) =>
           /\ calls = <<>>
           /\ pc = "return" => terminal = <<HandleAPIError(StatusBadRequest)>>

Wit_C9_NilUUIDRejected ==
    /\ handler = "LatestAppRevisions" /\ pc = "return"
    /\ request.decodeOk
    /\ request.DeploymentTargetID = NilUUID

EffectsNamed(names) == {k \in 1..Len(effects) : effects[k].effect \in names}

RestCalls == {"updateApp", "applyApp", "updateBuildSettings", "reRunGHWorkflow"}

\* a rebuild is needed and the form data does not ask to redeploy on save
RebuildUnconfirmed ==
    /\ handler = "onSubmit"
    /\ needsRebuild(request)
    /\ ~request.redeployOnSave

\* C10 as stated: when a rebuild is needed and redeployOnSave is not set, the
\* only effect of onSubmit is opening the confirm-redeploy modal.
Cex_C10_OnlyEffectIsTheModal ==
    (RebuildUnconfirmed /\ pc = "return") =>
        /\ ui.confirmDeployModalOpen
        /\ \A k \in 1..Len(effects) :
              effects[k].effect \in {"validateApp", "setConfirmDeployModalOpen"}

\* C10 amended: when a rebuild is needed and redeployOnSave is not set, no
\* REST call is made, no query is invalidated and nothing navigates; when
\* validateApp resolved the only effect is opening the confirm-redeploy modal,
\* and when it threw the only effect is the error report of the catch block.
Thm_C10_RebuildAsksFirst ==
    RebuildUnconfirmed =>
        /\ EffectsNamed(RestCalls \cup {"invalidateQueries", "history.push",
                                         "setPreviewRevision", "window.open"}) = {}
        /\ pc = "return" =>
              IF effects[1].threw
              THEN /\ EffectsNamed({"setConfirmDeployModalOpen"}) = {}
                   /\ EffectsNamed({"setError"}) # {}
              ELSE /\ effects = <<Effect("validateApp", "", FALSE),
                                  Effect("setConfirmDeployModalOpen", "true", FALSE)>>
                   /\ ui.confirmDeployModalOpen

Wit_C10_FailedBuildOpensModal ==
    /\ handler = "onSubmit" /\ pc = "return"
    /\ request.status = "BUILD_FAILED" /\ ~request.buildIsDirty
    /\ ~request.redeployOnSave
    /\ request.sourceType = "github"
    /\ ui.confirmDeployModalOpen
    /\ Len(effects) = 2

\* the steps of onSubmit that may throw
Throwing == RestCalls \cup {"validateApp"}

\* C11: in onSubmit, validateApp has resolved before any of updateApp,
\* applyApp, updateBuildSettings and reRunGHWorkflow is called; if validation
\* throws, none of these calls is made.
Thm_C11_ValidateBeforeRestCalls ==
    handler = "onSubmit" =>
        \A k \in EffectsNamed(RestCalls) :
            /\ k > 1
            /\ effects[1].effect = "validateApp"
            /\ ~effects[1].threw

Wit_C11_RestCallAfterValidation ==
    /\ handler = "onSubmit" /\ pc = "return"
    /\ EffectsNamed({"updateBuildSettings"}) # {}
    /\ EffectsNamed({"reRunGHWorkflow"}) # {}
    /\ effects[1] = Effect("validateApp", "", FALSE)

\* a submit has finished and everything it called succeeded
SubmitWithoutFailure ==
    /\ handler = "onSubmit" /\ pc = "return"
    /\ \A k \in EffectsNamed(RestCalls) : ~effects[k].threw

\* the last three effects are the invalidation of getLatestRevision, the
\* clearing of the preview revision and the one navigation of the submit
EndsWithRedirect ==
    LET n == Len(effects)
    IN /\ n >= 3
       /\ effects[n - 2] = Effect("invalidateQueries", "getLatestRevision", FALSE)
       /\ effects[n - 1] = Effect("setPreviewRevision", "null", FALSE)
       /\ effects[n].effect = "history.push"
       /\ effects[n].arg =
             IF request.isPreview
             THEN "/preview-environments/apps/web/activity?target=" \o request.targetId
             ELSE "/apps/web/activity"
       /\ EffectsNamed({"history.push"}) = {n}
       /\ EffectsNamed({"invalidateQueries"}) = {n - 2}
       /\ EffectsNamed({"setPreviewRevision"}) = {n - 1}
       /\ ui.location = effects[n].arg
       /\ ui.previewRevision = Nil

\* C12 as stated: after a submit in which every API call succeeds, the query
\* is invalidated, the preview revision set to null and the page navigates
\* exactly once, to the preview path or to /apps/{name}/activity.
Cex_C12_EverySuccessfulSubmitRedirects ==
    SubmitWithoutFailure => EndsWithRedirect

\* C12 amended: the same, for a submit whose validateApp resolved and which
\* did not stop at the confirm-redeploy modal.
Thm_C12_RedirectAfterSave ==
    (/\ SubmitWithoutFailure
     /\ ~effects[1].threw
     /\ ~(needsRebuild(request) /\ ~request.redeployOnSave)) => EndsWithRedirect

Wit_C12_PreviewRedirect ==
    /\ handler = "onSubmit" /\ pc = "return"
    /\ request.isPreview
    /\ ui.location = "/preview-environments/apps/web/activity?target=" \o SomeUUID
    /\ EffectsNamed({"applyApp"}) # {}

\* C13: when validateApp or an API call of onSubmit throws, a form error is
\* set on "app", the API calls after the failing one are not made, and there
\* is no query invalidation, no clearing of the preview revision and no
\* navigation.
Thm_C13_ThrowStopsSubmit ==
    handler = "onSubmit" =>
        \A k \in EffectsNamed(Throwing) :
            effects[k].threw =>
                /\ \A j \in EffectsNamed(Throwing) : j <= k
                /\ EffectsNamed({"invalidateQueries", "setPreviewRevision",
                                 "history.push"}) = {}
                /\ pc \in {"catch", "return"}
                /\ pc = "return" =>
                      /\ effects[Len(effects)] = Effect("setError", "app", FALSE)
                      /\ Cardinality(EffectsNamed({"setError"})) = 1

Wit_C13_ApplyAppThrew ==
    /\ handler = "onSubmit" /\ pc = "return"
    /\ Len(effects) = 5
    /\ effects[2] = Effect("applyApp", "force_build", TRUE)
    /\ request.sourceType = "github"

\* C14: onlyExpandedChanged is true exactly when the form is dirty and every
\* dirty leaf field, at any nesting depth of dirtyFields, is named "expanded"
\* or "id"; the unsaved-changes banner is visible if and only if the form is
\* dirty and onlyExpandedChanged is false.
Thm_C14_OnlyExpandedChanged ==
    (handler = "AppDataContainer" /\ pc = "rendered") =>
        /\ local.onlyExpandedChanged <=>
              /\ request.isDirty
              /\ \A l \in request.leaves :
                    l.value => l.path[Len(l.path)] \in {"expanded", "id"}
        /\ local.bannerVisible <=> (request.isDirty /\ ~local.onlyExpandedChanged)

Wit_C14_NestedExpandedOnly ==
    /\ handler = "AppDataContainer" /\ pc = "rendered"
    /\ request.isDirty
    /\ \E l \in request.leaves : l.value /\ Len(l.path) = 2 /\ l.path[2] = "expanded"
    /\ \E l \in request.leaves : ~l.value /\ l.path[Len(l.path)] = "name"
    /\ local.onlyExpandedChanged
    /\ ~local.bannerVisible

\* C15: in GithubActionModal.submit, createSecretAndOpenGitHubPullRequest is
\* called only after deployPorterApp (when provided) has resolved to true; when
\* deployPorterApp resolves to false or throws, no secret/PR request is made
\* and nothing navigates to /apps/{stackName}.
Thm_C15_SecretAfterDeploy ==
    handler = "GithubActionModal" =>
        /\ \A k \in EffectsNamed({"createSecretAndOpenGitHubPullRequest"}) :
              request.hasDeployPorterApp =>
                 \E j \in 1..(k - 1) : effects[j] = Effect("deployPorterApp", "true", FALSE)
        /\ \A j \in EffectsNamed({"deployPorterApp"}) :
              (effects[j].threw \/ effects[j].arg = "false") =>
                 /\ EffectsNamed({"createSecretAndOpenGitHubPullRequest",
                                  "history.push", "window.open",
                                  "window.location.reload"}) = {}
                 /\ j = Len(effects) \/ effects[j + 1] = Effect("setLoading", "false", FALSE)

Wit_C15_DeployResolvedFalse ==
    /\ handler = "GithubActionModal" /\ pc = "return"
    /\ effects = <<Effect("setLoading", "true", FALSE),
                   Effect("deployPorterApp", "false", FALSE),
                   Effect("setLoading", "false", FALSE)>>

\* the cases in which the hook must not ask for the default deployment target
NoTargetRequestCase ==
    \/ ~request.currentProject.defined \/ request.currentProject.id = 0
    \/ ~request.currentCluster.defined \/ request.currentCluster.id = 0
    \/ request.currentCluster.id = -1
    \/ ~request.currentProject.validate_apply_v2

AppNotUniquelyFound ==
    \E k \in CallsOf("ReadPorterAppsByProjectIDAndName") :
        ~calls[k].err /\ Len(calls[k].value) # 1

\* C17: in all three handlers a downstream dependency failure (a repository,
\* control-plane or cluster call returning an error) is reported with HTTP 500,
\* and 400 is used only for invalid or missing request input.
Cex_C17_DependencyFailureIs500 ==
    (handler \in GoHandlers /\ pc = "return") =>
        /\ (\E k \in 1..Len(calls) : calls[k].err) =>
              terminal = <<HandleAPIError(StatusInternalServerError)>>
        /\ terminal = <<HandleAPIError(StatusBadRequest)>> =>
              ValidationFailed \/ AppNotUniquelyFound

\* the App's handlers the router can call
AppHandlers == {Routes[k].handler : k \in 1..Len(Routes)}

\* the request is on /users/{id} or below it
OnUserID == Len(request.path) >= 2 /\ request.path[1] = "users"

\* C18: every route on /api/users/{id} (GET user, GET clusters, GET
\* clusters/all, PUT, DELETE) reaches its handler only through
\* auth.DoesUserIDMatch; the only requests that reach a handler without that
\* check are POST /users, POST /login and GET /auth/check.
Thm_C18_UserRoutesBehindIDMatch ==
    handler = "router" =>
        \A k \in 1..Len(calls) :
            calls[k].op \in AppHandlers =>
               /\ OnUserID =>
                     \E j \in 1..(k - 1) : calls[j] = RouteCall("DoesUserIDMatch", TRUE)
               /\ CallsOf("DoesUserIDMatch") = {} =>
                     <<request.method, request.path>> \in
                        {<<"POST", <<"users">> >>, <<"POST", <<"login">> >>,
                         <<"GET", <<"auth", "check">> >>}
               /\ OnUserID =>
                     <<request.method, Len(request.path), calls[k].op>> \in
                        {<<"GET", 2, "HandleReadUser">>,
                         <<"GET", 3, "HandleReadUserClusters">>,
                         <<"GET", 4, "HandleReadUserClustersAll">>,
                         <<"PUT", 2, "HandleUpdateUser">>,
                         <<"DELETE", 2, "HandleDeleteUser">>}

Wit_C18_UpdateUserAfterIDMatch ==
    /\ handler = "router" /\ pc = "return"
    /\ request = [method |-> "PUT", path |-> <<"users", "1">>]
    /\ calls = <<RouteCall("DoesUserIDMatch", TRUE), RouteCall("requestlog", TRUE),
                 RouteCall("HandleUpdateUser", TRUE)>>

TypeOK ==
    /\ handler \in {"none", "PodStatus", "LatestAppRevision", "LatestAppRevisions", "onSubmit",
                   "GithubActionModal"}
    /\ Len(terminal) <= 1

====
